---- MODULE Spec2Model ----
(***************************************************************************)
(* A model of the read-only exFAT parser: the FAT cluster-chain iterator   *)
(* (fat.rs), the directory entry reader and the file entry set assembler   *)
(* (entries.rs) and the root mount Root::open (lib.rs).                    *)
(*                                                                         *)
(* A FAT of n entries is a sequence of length n whose entry i (0-based, as  *)
(* in the source) is fat[i + 1].  The input of a run is drawn when the     *)
(* code reads it: the boot sector at the start, the FAT when it is loaded, *)
(* each 32-byte directory entry at its read.                               *)
(***************************************************************************)
EXTENDS Integers, Sequences, FiniteSets, TLC

VARIABLES
    image,              \* the family of images the run draws its input from
    boot,               \* the decoded fields of the main boot sector (lib.rs:34)
    pc,                 \* the position of the running operation
    params,             \* Params (lib.rs:46)
    fat,                \* Fat.entries (fat.rs:7)
    next,               \* ClusterChain.next (fat.rs:65)
    ret,                \* what the last call of ClusterChain::next returned
    yielded,            \* the indices yielded so far, in order (kept up to Len(fat))
    calls,              \* the number of calls of ClusterChain::next, modulo 2
    chain,              \* the cluster chain of the ClustersReader
    offset,             \* the ClustersReader's position, in entries
    entry_index,        \* EntriesReader.entry_index (entries.rs:13)
    entry,              \* the RawEntry Root::open holds (lib.rs:116)
    allocation_bitmaps, \* lib.rs:109
    upcase_table,       \* lib.rs:110
    volume_label,       \* lib.rs:111
    items,              \* lib.rs:112
    stream,             \* the StreamEntry FileEntry::load holds (entries.rs:116)
    names,              \* the filename entries FileEntry::load holds (entries.rs:120)
    loaded,             \* what FileEntry::load returned
    file,               \* the FileEntry of an Ok(FileEntry)
    dir,                \* every RawEntry the EntriesReader returned, in order
    result              \* what the operation returned

vars == <<image, boot, pc, params, fat, next, ret, yielded, calls, chain, offset,
          entry_index, entry, allocation_bitmaps, upcase_table,
          volume_label, items, stream, names, loaded, file, dir, result>>

chainVars == <<fat, next, ret, yielded, calls>>
readerVars == <<chain, offset, entry_index, dir>>
rootVars == <<allocation_bitmaps, upcase_table, volume_label, items>>
loadVars == <<stream, names, loaded, file>>

(***************************************************************************)
(* Bounds of the model.                                                    *)
(***************************************************************************)
\* The largest ClusterCount a boot sector of the model declares.
MaxClusterCount == 3
\* The number of 32-byte entries a cluster of the model holds.
EntriesPerCluster == 2
\* The number of directory entries a run reads at most.
MaxDirEntries == 6
\* The largest FAT handed to get_cluster_chain on its own.
MaxFatLen == 4

(***************************************************************************)
(* Numbers.  Integers here are 32 bits wide, so a u32 or u64 (and a usize  *)
(* that holds one) that the image decides is kept as the tuple of its      *)
(* 16-bit words, least significant first, as the little-endian bytes of    *)
(* the image give them: a u32 is <<w0, w1>>, a u64 <<w0, w1, w2, w3>>.     *)
(* Counts and indices the model bounds are plain integers.                 *)
(***************************************************************************)
\* The words of a small number n < 2^16, k words wide.
W(n, k) == [j \in 1 .. k |-> IF j = 1 THEN n ELSE 0]
U32(n) == W(n, 2)
U64(n) == W(n, 4)

\* v < 2^16.
IsSmall(v) == \A j \in 2 .. Len(v) : v[j] = 0
\* v < n and v >= n, for a plain integer n <= 2^16.
Below(v, n) == IsSmall(v) /\ v[1] < n
AtLeast(v, n) == ~Below(v, n)
\* a > b, for two numbers of the same width.
Greater(a, b) ==
    \E j \in 1 .. Len(a) : a[j] > b[j] /\ \A i \in j + 1 .. Len(a) : a[i] = b[i]

\* 0xfffffff7 (fat.rs:76) and 0xffffffff.
BadCluster == <<65527, 65535>>
EndOfChain == <<65535, 65535>>

None == [tag |-> "None", v |-> U32(0)]
Some(v) == [tag |-> "Some", v |-> v]
NoCall == [tag |-> "NoCall", v |-> U32(0)]

(***************************************************************************)
(* fat.rs: the cluster chain iterator.                                     *)
(***************************************************************************)
\* entries[i] of the source, for an index i < entries.len().
FatAt(i) == IF Below(i, Len(fat)) THEN Some(fat[i[1] + 1]) ELSE None

\* The index names no entry of a chain (fat.rs:76, the first two tests);
\* first as it would be without the test next < 2.
MutOutOfChain(n) == AtLeast(n, Len(fat))
OutOfChain(n) == Below(n, 2) \/ AtLeast(n, Len(fat))

\* The entry is the bad-cluster mark (fat.rs:76, the third test).
IsBad(e) == e = BadCluster

\* The history of yields, kept up to Len(fat) elements: a chain that ends
\* yields fewer.
Record(seq, v) == IF Len(seq) < Len(fat) THEN Append(seq, v) ELSE seq

\* ClusterChain::next (fat.rs:71-84).  Indexing the entries out of their
\* range panics.
ChainNext ==
    /\ calls' = (calls + 1) % 2
    /\ fat' = fat
    /\ IF OutOfChain(next)
       THEN /\ ret' = None
            /\ next' = next
            /\ yielded' = yielded
       ELSE IF FatAt(next) = None
       THEN /\ ret' = [tag |-> "Panic", v |-> next]
            /\ next' = next
            /\ yielded' = yielded
       ELSE IF IsBad(FatAt(next).v)
       THEN /\ ret' = None
            /\ next' = next
            /\ yielded' = yielded
       ELSE /\ ret' = Some(next)
            /\ next' = FatAt(next).v
            /\ yielded' = Record(yielded, next)

\* The values a FAT entry takes: every index of the largest FAT, the first
\* index past it, the bad-cluster mark and the end-of-chain mark.
FatValues == {U32(n) : n \in 0 .. MaxFatLen} \cup {BadCluster, EndOfChain}

\* The FATs of count entries.
Fats(count) == [1 .. count -> FatValues]

\* The values `first` takes in a call of get_cluster_chain.
FirstValues == {U32(n) : n \in 0 .. MaxFatLen + 1} \cup {BadCluster}

(***************************************************************************)
(* UTF-16, as String::from_utf16 and String::from_utf16_lossy decode it.   *)
(* A String is the sequence of its chars (Unicode scalar values).          *)
(***************************************************************************)
IsHigh(u) == 55296 <= u /\ u <= 56319
IsLow(u) == 56320 <= u /\ u <= 57343
\* U+FFFD, what from_utf16_lossy puts for an unpaired surrogate.
Replacement == 65533

\* The char a surrogate pair encodes.
PairChar(h, l) == 65536 + (h - 55296) * 1024 + (l - 56320)

RECURSIVE WellFormed(_)
WellFormed(u) ==
    IF u = <<>> THEN TRUE
    ELSE IF IsHigh(u[1])
         THEN Len(u) >= 2 /\ IsLow(u[2]) /\ WellFormed(SubSeq(u, 3, Len(u)))
         ELSE ~IsLow(u[1]) /\ WellFormed(Tail(u))

\* from_utf16_lossy; from_utf16 is the same on a well-formed sequence and
\* an error otherwise.
RECURSIVE DecodeLossy(_)
DecodeLossy(u) ==
    IF u = <<>> THEN <<>>
    ELSE IF IsHigh(u[1]) /\ Len(u) >= 2 /\ IsLow(u[2])
         THEN <<PairChar(u[1], u[2])>> \o DecodeLossy(SubSeq(u, 3, Len(u)))
         ELSE IF IsHigh(u[1]) \/ IsLow(u[1])
              THEN <<Replacement>> \o DecodeLossy(Tail(u))
              ELSE <<u[1]>> \o DecodeLossy(Tail(u))

\* str::encode_utf16.
RECURSIVE EncodeUtf16(_)
EncodeUtf16(s) ==
    IF s = <<>> THEN <<>>
    ELSE (IF s[1] >= 65536
          THEN <<55296 + ((s[1] - 65536) \div 1024), 56320 + ((s[1] - 65536) % 1024)>>
          ELSE <<s[1]>>) \o EncodeUtf16(Tail(s))

(***************************************************************************)
(* entries.rs: the 32 bytes of a directory entry.  An entry is its first   *)
(* two bytes, ty = data[0] and b1 = data[1], and the fifteen little-endian *)
(* 16-bit words w[1..15] of data[2..32]: w[k] is bytes 2k and 2k+1.        *)
(***************************************************************************)
Min(a, b) == IF a < b THEN a ELSE b

\* LE::read_u16(&data[4..]) (entries.rs:91).
AttributesOf(d) == d.w[2]
\* data[3] (entries.rs:205).
NameLengthOf(d) == d.w[1] \div 256
\* LE::read_u64(&data[8..]) (entries.rs:215).
ValidDataLengthOf(d) == <<d.w[4], d.w[5], d.w[6], d.w[7]>>
\* LE::read_u32(&data[20..]) (entries.rs:343).
FirstClusterOf(d) == <<d.w[10], d.w[11]>>
\* LE::read_u64(&data[24..]) (entries.rs:344).
DataLengthOf(d) == <<d.w[12], d.w[13], d.w[14], d.w[15]>>

\* EntryType (entries.rs:271-292).  MutIsRegular is is_regular with 0x80 for
\* 0x81, MutIsCriticalSecondary is is_critical_secondary without the test of
\* the importance.
MutIsRegular(ty) == ty >= 128
IsRegular(ty) == ty >= 129
TypeCode(ty) == ty % 32
TypeImportance(ty) == (ty \div 32) % 2
TypeCategory(ty) == (ty \div 64) % 2
MutIsCriticalSecondary(ty, code) ==
    IsRegular(ty) /\ TypeCategory(ty) = 1 /\ TypeCode(ty) = code
IsCriticalSecondary(ty, code) ==
    IsRegular(ty) /\ TypeImportance(ty) = 0 /\ TypeCategory(ty) = 1 /\ TypeCode(ty) = code

\* SecondaryFlags (entries.rs:323-329).
AllocationPossible(flags) == flags % 2 # 0
NoFatChain(flags) == (flags \div 2) % 2 # 0

\* FileAttributes::is_directory (lib.rs:285-287).
IsDirectory(attrs) == (attrs \div 16) % 2 # 0

\* ClusterAllocation::load (entries.rs:340-359): the error, or "" when Ok.
AllocationError(d) ==
    IF FirstClusterOf(d) = U32(0)
    THEN IF DataLengthOf(d) # U64(0) THEN "InvalidDataLength" ELSE ""
    ELSE IF Below(FirstClusterOf(d), 2) THEN "InvalidFirstCluster" ELSE ""

Allocation(d) == [first_cluster |-> FirstClusterOf(d), data_length |-> DataLengthOf(d)]

(***************************************************************************)
(* The images.  A run draws what it reads from the partition from bounded  *)
(* sets: `image` names the family.  "chain" is a FAT handed to             *)
(* get_cluster_chain, "entryset" a directory stream handed to              *)
(* FileEntry::load, "volume" a whole volume handed to Root::open.          *)
(***************************************************************************)
\* A high and a low surrogate: U+1F600 is the pair.
Surrogates == <<55357, 56832>>
High == Surrogates[1]
Low == Surrogates[2]

Words(f(_)) == [k \in 1 .. 15 |-> f(k)]
ZeroAt(k) == 0
Entry(ty, b1, w) == [ty |-> ty, b1 |-> b1, w |-> w]

\* FirstCluster at bytes 20..24 and DataLength at bytes 24..32.
AllocWords(fc, dl) ==
    [k \in 1 .. 15 |-> IF k \in 10 .. 11 THEN fc[k - 9]
                       ELSE IF k \in 12 .. 15 THEN dl[k - 11] ELSE 0]
\* NameLength at byte 3, ValidDataLength at bytes 8..16, then the allocation.
StreamWords(nl, vdl, fc, dl) ==
    [k \in 1 .. 15 |-> IF k = 1 THEN nl * 256
                       ELSE IF k \in 4 .. 7 THEN vdl[k - 3]
                       ELSE AllocWords(fc, dl)[k]]
\* FileAttributes at bytes 4..6.
FileWords(attrs) == [k \in 1 .. 15 |-> IF k = 2 THEN attrs ELSE 0]

\* The fifteen code units of a filename entry: "a" everywhere but where the
\* pattern says.
NameWords(p) ==
    [k \in 1 .. 15 |->
        CASE p = "b" /\ k = 1 -> 98
          [] p = "pair" /\ k = 1 -> High
          [] p = "pair" /\ k = 2 -> Low
          [] p = "high_last" /\ k = 15 -> High
          [] p = "low_first" /\ k = 1 -> Low
          [] OTHER -> 97]
\* The code units of a volume label entry: a, a pair, a lone low surrogate,
\* then b.
LabelWords ==
    [k \in 1 .. 15 |->
        CASE k = 2 -> High [] k = 3 -> Low [] k = 4 -> Low [] k = 1 -> 97
          [] OTHER -> 98]

\* (FirstCluster, DataLength) pairs: Ok, Ok, InvalidDataLength,
\* InvalidFirstCluster.
Allocs(img) ==
    IF img = "entryset"
    THEN {<<U32(0), U64(0)>>, <<U32(2), U64(1)>>, <<U32(0), U64(1)>>, <<U32(1), U64(0)>>,
          <<BadCluster, <<0, 0, 0, 1>> >>}
    ELSE {<<U32(2), U64(1)>>, <<U32(0), U64(1)>>, <<U32(1), U64(0)>>}

ValidLengths(img) ==
    IF img = "entryset"
    THEN {U64(0), U64(1), U64(2), <<0, 0, 0, 1>>, <<0, 0, 1, 0>>}
    ELSE {U64(0), U64(1), U64(2)}

NameLengths(img) ==
    IF img = "entryset" THEN {0, 1, 2, 15, 16, 17, 30, 31, 255} ELSE {0, 1, 16}

NamePatterns(img) ==
    IF img = "entryset" THEN {"a", "b", "pair", "high_last", "low_first"} ELSE {"a", "b"}

SecondaryFlagValues(img) == IF img = "entryset" THEN {0, 1, 2, 3} ELSE {0, 1}

\* EntryType bytes that are neither a stream extension nor a filename: end
\* of directory, a deleted file, stream and filename entry, 0x80, a benign
\* primary, an unknown critical primary and secondary, benign secondaries.
OtherTypes(img) ==
    IF img = "entryset"
    THEN {0, 5, 64, 65, 128, 129, 133, 165, 194, 224, 225}
    ELSE {0, 65, 128, 134, 165, 194}

BitmapEntries(img) ==
    {Entry(129, f, AllocWords(a[1], a[2])) : f \in {0, 1}, a \in Allocs(img)}
UpcaseEntries(img) == {Entry(130, 0, AllocWords(a[1], a[2])) : a \in Allocs(img)}
LabelEntries(img) == {Entry(131, c, LabelWords) : c \in {0, 11, 12}}
FileEntries(img) == {Entry(133, c, FileWords(a)) : c \in {0, 1, 2, 3}, a \in {0, 16}}
\* The stream extensions: every combination of the fields in an "entryset"
\* image; in a "volume" image one well-formed entry and the entries that
\* differ from it in one field.
StreamFields(img) ==
    IF img = "entryset"
    THEN (SecondaryFlagValues(img) \X {1} \X ValidLengths(img) \X Allocs(img))
         \cup ({1, 3} \X NameLengths(img) \X {U64(1)} \X {<<U32(2), U64(1)>>})
    ELSE {<<f, 1, U64(1), <<U32(2), U64(1)>> >> : f \in SecondaryFlagValues(img)}
         \cup {<<1, n, U64(1), <<U32(2), U64(1)>> >> : n \in NameLengths(img)}
         \cup {<<1, 1, v, <<U32(2), U64(1)>> >> : v \in ValidLengths(img)}
         \cup {<<1, 1, U64(1), a>> : a \in Allocs(img)}
StreamEntries(img) ==
    {Entry(192, s[1], StreamWords(s[2], s[3], s[4][1], s[4][2])) : s \in StreamFields(img)}
NameEntries(img) ==
    {Entry(193, f, NameWords(p)) : f \in {0, 1}, p \in NamePatterns(img)}
OtherEntries(img) == {Entry(t, 0, Words(ZeroAt)) : t \in OtherTypes(img)}

\* The 32-byte entries a directory of the image holds.
Alphabet(img) ==
    IF img = "entryset"
    THEN StreamEntries(img) \cup NameEntries(img) \cup OtherEntries(img)
    ELSE BitmapEntries(img) \cup UpcaseEntries(img) \cup LabelEntries(img)
         \cup FileEntries(img) \cup StreamEntries(img) \cup NameEntries(img)
         \cup OtherEntries(img)

(***************************************************************************)
(* What an operation returns.  An error is its variant, the variant of the *)
(* error it wraps (its source), and the position it carries, if any.       *)
(***************************************************************************)
\* `cause` is the chain of sources, outermost first.
Res(kind, err, cause, has_pos, index, cluster) ==
    [kind |-> kind, err |-> err, cause |-> cause, has_pos |-> has_pos,
     index |-> index, cluster |-> cluster]
NoResult == Res("None", "", <<>>, FALSE, 0, U32(0))
Ok == Res("Ok", "", <<>>, FALSE, 0, U32(0))
\* A variant with fields (usize, usize).
ErrAt(err, index, cluster) == Res("Err", err, <<>>, TRUE, index, cluster)
\* A variant with no field.
ErrPlain(err) == Res("Err", err, <<>>, FALSE, 0, U32(0))
\* A variant whose source is the error `e`.
ErrFrom(err, e) == Res("Err", err, <<e.err>> \o e.cause, e.has_pos, e.index, e.cluster)
\* A variant with fields (usize, usize) and a source.
ErrAtFrom(err, index, cluster, cause) == Res("Err", err, <<cause>>, TRUE, index, cluster)
\* A panic: an index or slice out of range, an arithmetic overflow.
Panic(what) == Res("Panic", what, <<>>, FALSE, 0, U32(0))

NoEntry == [index |-> 0, cluster |-> U32(0), data |-> Entry(0, 0, Words(ZeroAt))]
NoStream ==
    [no_fat_chain |-> FALSE, name_length |-> 0, valid_data_length |-> U64(0),
     alloc |-> [first_cluster |-> U32(0), data_length |-> U64(0)]]
NoFile == [name |-> <<>>, attributes |-> 0, stream |-> NoStream]
NoParams ==
    [fat_offset |-> U64(0), fat_length |-> U64(0), cluster_heap_offset |-> U64(0),
     cluster_count |-> 0, first_cluster_of_root_directory |-> U32(0),
     volume_flags |-> 0, bytes_per_sector |-> 0, sectors_per_cluster |-> 0,
     number_of_fats |-> 0]
NoAllocation == [tag |-> "None", v |-> [first_cluster |-> U32(0), data_length |-> U64(0)]]
NoLabel == [tag |-> "None", v |-> <<>>]

(***************************************************************************)
(* The cluster stream and EntriesReader::read (entries.rs:24-48).          *)
(***************************************************************************)
\* The stream has no entry left.
Exhausted == offset >= Len(chain) * EntriesPerCluster

\* ClustersReader::cluster() with the stream at entry o: the cluster being
\* consumed; the last one when the stream is at its end.
ClusterAt(o) == chain[Min(o \div EntriesPerCluster, Len(chain) - 1) + 1]

\* The RawEntry a successful read of the 32 bytes d returns (entries.rs:43).
RawEntry(d) == [index |-> entry_index, cluster |-> ClusterAt(offset), data |-> d]

\* Err(ReaderError::ReadFailed(index, cluster, e)) (entries.rs:33).
ReadFailed == ErrAt("ReadFailed", entry_index, ClusterAt(offset))

\* The index after a read (entries.rs:37-41); first as it would be without
\* the reset at a new cluster.
MutNextIndex == entry_index + 1
NextIndex == IF ClusterAt(offset + 1) # ClusterAt(offset) THEN 0 ELSE entry_index + 1

\* A successful read of the 32 bytes d.
Read(d) ==
    /\ ~Exhausted
    /\ Len(dir) < MaxDirEntries
    /\ offset' = offset + 1
    /\ entry_index' = NextIndex
    /\ dir' = Append(dir, RawEntry(d))
    /\ chain' = chain

(***************************************************************************)
(* entries.rs: StreamEntry::load and FileEntry::load.                      *)
(***************************************************************************)
\* The test of ValidDataLength against DataLength (entries.rs:226-238);
\* first as it would be without the test for equality under a directory.
MutLengthsOk(attrs, vdl, dl) == ~Greater(vdl, dl)
LengthsOk(attrs, vdl, dl) == IF IsDirectory(attrs) THEN vdl = dl ELSE ~Greater(vdl, dl)

\* StreamEntry::load returns Ok (entries.rs:192-246).
StreamOk(d, attrs) ==
    /\ AllocationPossible(d.b1)
    /\ NameLengthOf(d) >= 1
    /\ AllocationError(d) = ""
    /\ LengthsOk(attrs, ValidDataLengthOf(d), DataLengthOf(d))

\* The StreamEntry of Ok(StreamEntry) (entries.rs:240-245).
StreamOf(d) ==
    [no_fat_chain |-> NoFatChain(d.b1), name_length |-> NameLengthOf(d),
     valid_data_length |-> ValidDataLengthOf(d), alloc |-> Allocation(d)]

\* The early returns on SecondaryCount (entries.rs:93-97): the error, or "".
SecondaryCountError(sc) ==
    IF sc < 1 THEN "NoStreamExtension" ELSE IF sc < 2 THEN "NoFileName" ELSE ""

\* SecondaryCount and FileAttributes of the primary entry (entries.rs:90-91).
SecondaryCount == entry.data.b1
Attributes == AttributesOf(entry.data)

\* The number of filename entries the stream extension asks for
\* (entries.rs:140); first as it would be with the division rounding down.
MutNamesNeeded(nl) == nl \div 15
NamesNeeded(nl) == (nl + 15 - 1) \div 15

\* The number of bytes taken from a filename entry (entries.rs:159).
Take(need) == Min(30, need)

\* The loop over the filename entries (entries.rs:148-173), with `need`
\* bytes still to take and `name` built so far: the result and the name.
RECURSIVE Assemble(_, _, _)
Assemble(ns, need, name) ==
    IF ns = <<>> THEN [res |-> Ok, name |-> name]
    ELSE LET e == ns[1]
             take == Take(need)
             units == SubSeq(e.data.w, 1, take \div 2)
         IN  IF AllocationPossible(e.data.b1)
             THEN [res |-> ErrAt("InvalidFileName", e.index, e.cluster), name |-> name]
             ELSE IF 2 + take > 32
             THEN [res |-> Panic("data[2..(2 + min(30, need))]"), name |-> name]
             ELSE IF take > need
             THEN [res |-> Panic("need -= raw_name.len()"), name |-> name]
             ELSE IF take % 2 # 0
             THEN [res |-> Panic("read_u16_into"), name |-> name]
             ELSE IF ~WellFormed(units)
             THEN [res |-> ErrAt("InvalidFileName", e.index, e.cluster), name |-> name]
             ELSE Assemble(Tail(ns), need - take, name \o DecodeLossy(units))

\* FileEntry::load returns r.
Return(r) ==
    /\ loaded' = r
    /\ pc' = "loaded"

\* FileEntry::load, up to the first read (entries.rs:88-97).
LoadStart ==
    /\ pc = "load"
    /\ IF SecondaryCountError(SecondaryCount) # ""
       THEN Return(ErrAt(SecondaryCountError(SecondaryCount), entry.index, entry.cluster))
       ELSE pc' = "load_stream" /\ loaded' = loaded
    /\ UNCHANGED <<image, boot, params, chainVars, readerVars, entry, rootVars, stream,
                   names, file, result>>

\* FileEntry::load, the stream extension (entries.rs:99-120).
LoadStream ==
    /\ pc = "load_stream"
    /\ \/ /\ Exhausted
          /\ Return(ErrFrom("ReadStreamFailed", ReadFailed))
          /\ UNCHANGED <<readerVars, stream, names>>
       \/ \E d \in Alphabet(image) :
            /\ Read(d)
            /\ IF ~IsCriticalSecondary(d.ty, 0)
               THEN /\ Return(ErrAt("NotStreamExtension", RawEntry(d).index, RawEntry(d).cluster))
                    /\ UNCHANGED <<stream, names>>
               ELSE IF ~StreamOk(d, Attributes)
               THEN /\ Return(ErrAt("InvalidStreamExtension", RawEntry(d).index,
                                     RawEntry(d).cluster))
                    /\ UNCHANGED <<stream, names>>
               ELSE IF SecondaryCount < 1
               THEN /\ Return(Panic("secondary_count - 1"))
                    /\ UNCHANGED <<stream, names>>
               ELSE /\ stream' = StreamOf(d)
                    /\ names' = <<>>
                    /\ pc' = "load_names"
                    /\ loaded' = loaded
    /\ UNCHANGED <<image, boot, params, chainVars, entry, rootVars, file, result>>

\* FileEntry::load, one filename entry (entries.rs:122-137).
LoadName ==
    /\ pc = "load_names"
    /\ Len(names) < SecondaryCount - 1
    /\ \/ /\ Exhausted
          /\ Return(ErrFrom("ReadFileNameFailed", ReadFailed))
          /\ UNCHANGED <<readerVars, names>>
       \/ \E d \in Alphabet(image) :
            /\ Read(d)
            /\ IF ~IsCriticalSecondary(d.ty, 1)
               THEN /\ Return(ErrAt("NotFileName", RawEntry(d).index, RawEntry(d).cluster))
                    /\ names' = names
               ELSE /\ names' = Append(names, RawEntry(d))
                    /\ pc' = pc
                    /\ loaded' = loaded
    /\ UNCHANGED <<image, boot, params, chainVars, entry, rootVars, stream, file, result>>

\* FileEntry::load, from the count of the filename entries to the return
\* (entries.rs:139-180).
LoadFinish ==
    /\ pc = "load_names"
    /\ Len(names) = SecondaryCount - 1
    /\ IF Len(names) # NamesNeeded(stream.name_length)
       THEN /\ Return(ErrAt("WrongFileNames", entry.index, entry.cluster))
            /\ file' = file
       ELSE LET a == Assemble(names, stream.name_length * 2, <<>>)
            IN  /\ Return(a.res)
                /\ file' = IF a.res.kind = "Ok"
                           THEN [name |-> a.name, attributes |-> Attributes,
                                 stream |-> stream]
                           ELSE file
    /\ UNCHANGED <<image, boot, params, chainVars, readerVars, entry, rootVars, stream,
                   names, result>>

(***************************************************************************)
(* Checked 64-bit arithmetic (fat.rs:17-28), on the words of a u64.        *)
(***************************************************************************)
\* v * n + c, one word longer than v; n <= 2^12.
RECURSIVE MulCarry(_, _, _)
MulCarry(v, n, c) ==
    IF v = <<>> THEN <<c>>
    ELSE <<(v[1] * n + c) % 65536>> \o MulCarry(Tail(v), n, (v[1] * n + c) \div 65536)

\* a + b + c, one word longer than a.
RECURSIVE AddCarry(_, _, _)
AddCarry(a, b, c) ==
    IF a = <<>> THEN <<c>>
    ELSE <<(a[1] + b[1] + c) % 65536>>
         \o AddCarry(Tail(a), Tail(b), (a[1] + b[1] + c) \div 65536)

\* u64::checked_mul and u64::checked_add: None on overflow.
\* MutCheckedAdd is the addition of two u32: None past 32 bits.
MutCheckedAdd(a, b) ==
    IF AddCarry(a, b, 0)[3] # 0 THEN [tag |-> "None", v |-> U64(0)]
    ELSE [tag |-> "Some", v |-> SubSeq(AddCarry(a, b, 0), 1, 4)]
CheckedMul(v, n) ==
    IF MulCarry(v, n, 0)[5] # 0 THEN [tag |-> "None", v |-> U64(0)]
    ELSE [tag |-> "Some", v |-> SubSeq(MulCarry(v, n, 0), 1, 4)]
CheckedAdd(a, b) ==
    IF AddCarry(a, b, 0)[5] # 0 THEN [tag |-> "None", v |-> U64(0)]
    ELSE [tag |-> "Some", v |-> SubSeq(AddCarry(a, b, 0), 1, 4)]

\* The error of Fat::load before the seek (fat.rs:17-28), or "".
FatOffsetError(p, index) ==
    LET m == CheckedMul(p.fat_length, index)
        a == CheckedAdd(p.fat_offset, m.v)
        o == CheckedMul(a.v, p.bytes_per_sector)
    IN  IF m.tag = "None" THEN "InvalidFatLength"
        ELSE IF a.tag = "None" THEN "InvalidFatOffset"
        ELSE IF o.tag = "None" THEN "InvalidFatOffset"
        ELSE ""

(***************************************************************************)
(* lib.rs: Root::open.                                                     *)
(***************************************************************************)
\* The tests of the two shifts (lib.rs:56, lib.rs:67); the second also as
\* it would be with 26 for 25.
BytesPerSectorShiftOk(v) == 9 <= v /\ v <= 12
MutSectorsPerClusterShiftOk(v, bps) == v <= 26 - bps
SectorsPerClusterShiftOk(v, bps) == v <= 25 - bps
NumberOfFatsOk(v) == v = 1 \/ v = 2

\* The (BytesPerSectorShift, SectorsPerClusterShift) pairs of the boot
\* sectors of the model: both ends of 9..=12 and the values next to them,
\* and for each end the largest cluster shift and the one above it.
Shifts ==
    {<<0, 0>>, <<8, 0>>, <<8, 17>>, <<9, 16>>, <<9, 17>>, <<9, 255>>, <<12, 13>>,
     <<12, 14>>, <<13, 0>>, <<13, 12>>, <<25, 0>>, <<26, 0>>, <<255, 0>>}

\* (ClusterCount, FirstClusterOfRootDirectory): the root directory starts at
\* no cluster (0, 1, the bad-cluster mark), at the last cluster of the heap
\* or past it.
Heaps ==
    {<<c, r>> : c \in 0 .. MaxClusterCount, r \in {0, 1, 2, 3, 4}}

HeapRoot(h) ==
    CASE h[2] = 2 -> U32(h[1] + 1) [] h[2] = 3 -> U32(h[1] + 2) [] h[2] = 4 -> BadCluster
      [] OTHER -> U32(h[2])

\* (FatOffset, FatLength, VolumeFlags, shifts): the FAT at sector 0, at its
\* usual place and at the largest sector a 32-bit field names, of no sector,
\* of its usual length and of the largest, either FAT active, the smallest
\* and the largest sector.
FatPlaces ==
    {U32(0), U32(24), <<65535, 65535>>} \X {U32(0), U32(8), <<65535, 65535>>}
        \X {0, 1} \X {<<9, 16>>, <<12, 13>>}

\* A well-formed boot sector: two FATs, the first active, the largest heap.
BaseBoot ==
    [readable |-> TRUE, fs_name |-> "EXFAT   ", zero |-> TRUE,
     fat_offset |-> U32(24), fat_length |-> U32(8), cluster_heap_offset |-> U32(32),
     cluster_count |-> MaxClusterCount, root |-> U32(MaxClusterCount + 1),
     volume_flags |-> 0, shifts |-> <<9, 16>>, number_of_fats |-> 2]

\* The boot sectors of the model: the well-formed one, and every one that
\* differs from it in the readability, the name, the zero bytes, the shifts,
\* the FATs (their number and the active one) or the heap; and those whose
\* FAT is at one of FatPlaces, with a heap of no cluster.
BootSectors ==
    {[BaseBoot EXCEPT !.readable = r] : r \in BOOLEAN}
    \cup {[BaseBoot EXCEPT !.fs_name = n] : n \in {"EXFAT   ", "NTFS    "}}
    \cup {[BaseBoot EXCEPT !.zero = z] : z \in BOOLEAN}
    \cup {[BaseBoot EXCEPT !.shifts = x] : x \in Shifts}
    \cup {[BaseBoot EXCEPT !.number_of_fats = n, !.volume_flags = f] :
            n \in {0, 1, 2, 3}, f \in {0, 1}}
    \cup {[BaseBoot EXCEPT !.cluster_count = h[1], !.root = HeapRoot(h)] : h \in Heaps}
    \cup {[BaseBoot EXCEPT !.fat_offset = x[1], !.fat_length = x[2],
                            !.volume_flags = x[3], !.shifts = x[4],
                            !.cluster_count = 0, !.root = U32(0)] : x \in FatPlaces}

\* The FATs of a volume of the model: every cluster linked to the one
\* before it, every cluster bad, and a loop of the first two clusters.
Linked(count) ==
    [i \in 1 .. count |->
        IF i = 1 THEN <<65528, 65535>>
        ELSE IF i \in {2, 3} THEN EndOfChain
        ELSE U32(i - 2)]
VolumeFats(count) ==
    {Linked(count), [i \in 1 .. count |-> BadCluster]}
    \cup (IF count >= 4
          THEN {[i \in 1 .. count |-> IF i = 3 THEN U32(3) ELSE U32(2)]}
          ELSE {})

\* Root::open returns r.
Finish(r) ==
    /\ result' = r
    /\ pc' = "done"

\* Params with the u32 fields widened (lib.rs:46-82).
ParamsOf(b) ==
    [fat_offset |-> b.fat_offset \o <<0, 0>>, fat_length |-> b.fat_length \o <<0, 0>>,
     cluster_heap_offset |-> b.cluster_heap_offset \o <<0, 0>>,
     cluster_count |-> b.cluster_count,
     first_cluster_of_root_directory |-> b.root,
     volume_flags |-> b.volume_flags,
     bytes_per_sector |-> 2 ^ b.shifts[1],
     sectors_per_cluster |-> 2 ^ b.shifts[2],
     number_of_fats |-> b.number_of_fats]

\* The boot sector, up to Params (lib.rs:33-82).
OpenBoot ==
    /\ pc = "open"
    /\ LET b == boot IN
         IF ~b.readable THEN Finish(ErrPlain("ReadMainBootFailed")) /\ params' = params
         ELSE IF b.fs_name # "EXFAT   " \/ ~b.zero
         THEN Finish(ErrPlain("NotExFat")) /\ params' = params
         ELSE IF ~BytesPerSectorShiftOk(b.shifts[1])
         THEN Finish(ErrPlain("InvalidBytesPerSectorShift")) /\ params' = params
         ELSE IF b.shifts[1] > 25
         THEN Finish(Panic("25 - boot[108]")) /\ params' = params
         ELSE IF ~SectorsPerClusterShiftOk(b.shifts[2], b.shifts[1])
         THEN Finish(ErrPlain("InvalidSectorsPerClusterShift")) /\ params' = params
         ELSE IF ~NumberOfFatsOk(b.number_of_fats)
         THEN Finish(ErrPlain("InvalidNumberOfFats")) /\ params' = params
         ELSE /\ params' = ParamsOf(b)
              /\ pc' = "fat"
              /\ result' = result
    /\ UNCHANGED <<image, boot, chainVars, readerVars, entry, rootVars, loadVars>>

\* VolumeFlags::active_fat (lib.rs:85).
ActiveFat == params.volume_flags % 2

\* The FAT region (lib.rs:84-93) and Fat::load (fat.rs:11-53).
LoadFat ==
    /\ pc = "fat"
    /\ IF ~(ActiveFat = 0 \/ params.number_of_fats = 2)
       THEN Finish(ErrPlain("InvalidNumberOfFats")) /\ fat' = fat
       ELSE IF FatOffsetError(params, ActiveFat) # ""
       THEN /\ Finish(ErrFrom("ReadFatRegionFailed",
                              ErrPlain(FatOffsetError(params, ActiveFat))))
            /\ fat' = fat
       ELSE \E io \in {"ok", "seek_elsewhere", "seek_failed", "read_failed"} :
              IF io = "seek_elsewhere"
              THEN /\ Finish(ErrFrom("ReadFatRegionFailed", ErrPlain("InvalidFatOffset")))
                   /\ fat' = fat
              ELSE IF io # "ok"
              THEN /\ Finish(ErrFrom("ReadFatRegionFailed", ErrPlain("IoFailed")))
                   /\ fat' = fat
              ELSE /\ fat' \in VolumeFats(params.cluster_count + 2)
                   /\ pc' = "reader"
                   /\ result' = result
    /\ UNCHANGED <<image, boot, params, next, ret, yielded, calls, readerVars, entry,
                   rootVars, loadVars>>

\* ClustersReader::new over the root directory (lib.rs:103-106): it refuses
\* a first cluster that is no cluster of the heap, and walks the FAT from it.
NewReader ==
    /\ pc = "reader"
    /\ IF \/ Below(params.first_cluster_of_root_directory, 2)
          \/ AtLeast(params.first_cluster_of_root_directory, params.cluster_count + 2)
       THEN /\ Finish(ErrFrom("CreateClustersReaderFailed", ErrPlain("NewError")))
            /\ UNCHANGED <<next, ret, yielded>>
       ELSE /\ next' = params.first_cluster_of_root_directory
            /\ ret' = NoCall
            /\ yielded' = <<>>
            /\ pc' = "chain"
            /\ result' = result
    /\ UNCHANGED <<image, boot, params, fat, calls, readerVars, entry, rootVars, loadVars>>

\* One call of ClusterChain::next by ClustersReader::new; after the call
\* that returns None the reader is built, unless the chain is empty.
CollectChain ==
    /\ pc = "chain"
    /\ ChainNext
    /\ IF ret'.tag = "Some"
       THEN UNCHANGED <<pc, result, chain, offset, entry_index>>
       ELSE IF ret'.tag = "Panic"
       THEN /\ Finish(Panic("entries[next]"))
            /\ UNCHANGED <<chain, offset, entry_index>>
       ELSE IF yielded = <<>>
       THEN /\ Finish(ErrFrom("CreateClustersReaderFailed", ErrPlain("NewError")))
            /\ UNCHANGED <<chain, offset, entry_index>>
       ELSE /\ chain' = yielded
            /\ offset' = 0
            /\ entry_index' = 0
            /\ pc' = "loop"
            /\ result' = result
    /\ UNCHANGED <<image, boot, params, dir, entry, rootVars, loadVars>>

\* CharacterCount is accepted (lib.rs:188); first as it would be with the
\* 15 code units an entry has room for in place of 11.
MutCharacterCountOk(n) == n <= 15
CharacterCountOk(n) == n <= 11

\* The slot of the next allocation bitmap (lib.rs:134-140).
BitmapIndex == IF allocation_bitmaps[1].tag = "Some" THEN 1 ELSE 0

\* BitmapFlags names the slot (lib.rs:146).
BitmapFlagsOk(flags, index) == flags % 2 = index

\* The primary entry `raw` is an allocation bitmap (lib.rs:132-160).
OnBitmap(raw) ==
    /\ UNCHANGED <<upcase_table, volume_label, items, entry>>
    /\ IF allocation_bitmaps[2].tag = "Some"
       THEN Finish(ErrPlain("TooManyAllocationBitmap")) /\ UNCHANGED allocation_bitmaps
       ELSE IF ~BitmapFlagsOk(raw.data.b1, BitmapIndex)
       THEN Finish(ErrPlain("WrongAllocationBitmap")) /\ UNCHANGED allocation_bitmaps
       ELSE IF AllocationError(raw.data) # ""
       THEN /\ Finish(ErrAtFrom("ReadClusterAllocationFailed", raw.index, raw.cluster,
                                AllocationError(raw.data)))
            /\ UNCHANGED allocation_bitmaps
       ELSE /\ allocation_bitmaps' =
                   [allocation_bitmaps EXCEPT ![BitmapIndex + 1] = Some(Allocation(raw.data))]
            /\ UNCHANGED <<pc, result>>

\* The primary entry `raw` is an up-case table (lib.rs:161-177).
OnUpcase(raw) ==
    /\ UNCHANGED <<allocation_bitmaps, volume_label, items, entry>>
    /\ IF upcase_table
       THEN Finish(ErrPlain("MultipleUpcaseTable")) /\ UNCHANGED upcase_table
       ELSE IF AllocationError(raw.data) # ""
       THEN /\ Finish(ErrAtFrom("ReadClusterAllocationFailed", raw.index, raw.cluster,
                                AllocationError(raw.data)))
            /\ UNCHANGED upcase_table
       ELSE /\ upcase_table' = TRUE
            /\ UNCHANGED <<pc, result>>

\* The primary entry `raw` is a volume label (lib.rs:178-201).
OnLabel(raw) ==
    /\ UNCHANGED <<allocation_bitmaps, upcase_table, items, entry>>
    /\ IF volume_label.tag = "Some"
       THEN Finish(ErrPlain("MultipleVolumeLabel")) /\ UNCHANGED volume_label
       ELSE IF ~CharacterCountOk(raw.data.b1)
       THEN Finish(ErrPlain("InvalidVolumeLabel")) /\ UNCHANGED volume_label
       ELSE IF 2 + raw.data.b1 * 2 > 32
       THEN Finish(Panic("data[2..(2 + character_count * 2)]")) /\ UNCHANGED volume_label
       ELSE IF raw.data.b1 > 11
       THEN Finish(Panic("label[..character_count]")) /\ UNCHANGED volume_label
       ELSE /\ volume_label' = Some(DecodeLossy(SubSeq(raw.data.w, 1, raw.data.b1)))
            /\ UNCHANGED <<pc, result>>

\* One turn of the loop over the primary entries (lib.rs:114-231), up to
\* the call of FileEntry::load for a file entry.
ReadPrimary ==
    /\ pc = "loop"
    /\ \/ /\ Exhausted
          /\ Finish(ErrFrom("ReadEntryFailed", ReadFailed))
          /\ UNCHANGED <<readerVars, entry, rootVars>>
       \/ \E d \in Alphabet(image) :
            /\ Read(d)
            /\ LET raw == RawEntry(d)
               IN  IF ~IsRegular(d.ty)
                   THEN /\ pc' = "check"
                        /\ UNCHANGED <<result, entry, rootVars>>
                   ELSE IF TypeCategory(d.ty) # 0
                   THEN /\ Finish(ErrAt("NotPrimaryEntry", raw.index, raw.cluster))
                        /\ UNCHANGED <<entry, rootVars>>
                   ELSE IF TypeImportance(d.ty) = 0 /\ TypeCode(d.ty) = 1
                   THEN OnBitmap(raw)
                   ELSE IF TypeImportance(d.ty) = 0 /\ TypeCode(d.ty) = 2
                   THEN OnUpcase(raw)
                   ELSE IF TypeImportance(d.ty) = 0 /\ TypeCode(d.ty) = 3
                   THEN OnLabel(raw)
                   ELSE IF TypeImportance(d.ty) = 0 /\ TypeCode(d.ty) = 5
                   THEN /\ entry' = raw
                        /\ pc' = "load"
                        /\ UNCHANGED <<result, rootVars>>
                   ELSE /\ Finish(ErrAt("UnknownEntry", raw.index, raw.cluster))
                        /\ UNCHANGED <<entry, rootVars>>
    /\ UNCHANGED <<image, boot, params, chainVars, loadVars>>

\* The return of FileEntry::load into the loop (lib.rs:204-228).  File::new
\* may refuse the stream.
OpenPushItem ==
    /\ pc = "loaded"
    /\ IF loaded.kind = "Panic"
       THEN Finish(loaded) /\ UNCHANGED items
       ELSE IF loaded.kind = "Err"
       THEN Finish(ErrFrom("LoadFileEntryFailed", loaded)) /\ UNCHANGED items
       ELSE IF IsDirectory(file.attributes)
       THEN /\ items' = Append(items, [kind |-> "Directory", name |-> file.name,
                                       stream |-> file.stream])
            /\ pc' = "loop"
            /\ result' = result
       ELSE \/ /\ items' = Append(items, [kind |-> "File", name |-> file.name,
                                          stream |-> file.stream])
               /\ pc' = "loop"
               /\ result' = result
            \/ /\ Finish(ErrAtFrom("CreateFileObjectFailed", entry.index, entry.cluster,
                                   "NewError"))
               /\ UNCHANGED items
    /\ UNCHANGED <<image, boot, params, chainVars, readerVars, entry, allocation_bitmaps,
                   upcase_table, volume_label, loadVars>>

\* After the loop (lib.rs:233-251).
BitmapsMissing ==
    IF params.number_of_fats = 2
    THEN allocation_bitmaps[2].tag = "None"
    ELSE allocation_bitmaps[1].tag = "None"

OpenFinish ==
    /\ pc = "check"
    /\ IF BitmapsMissing THEN Finish(ErrPlain("NoAllocationBitmap"))
       ELSE IF ~upcase_table THEN Finish(ErrPlain("NoUpcaseTable"))
       ELSE Finish(Ok)
    /\ UNCHANGED <<image, boot, params, chainVars, readerVars, entry, rootVars, loadVars>>

(***************************************************************************)
(* The specifications.                                                     *)
(***************************************************************************)
Blank ==
    /\ params = NoParams
    /\ fat = <<>>
    /\ next = U32(0)
    /\ ret = NoCall
    /\ yielded = <<>>
    /\ calls = 0
    /\ chain = <<>>
    /\ offset = 0
    /\ entry_index = 0
    /\ entry = NoEntry
    /\ allocation_bitmaps = <<NoAllocation, NoAllocation>>
    /\ upcase_table = FALSE
    /\ volume_label = NoLabel
    /\ items = <<>>
    /\ stream = NoStream
    /\ names = <<>>
    /\ loaded = NoResult
    /\ file = NoFile
    /\ dir = <<>>
    /\ result = NoResult

\* Root::open on a volume.
Init ==
    /\ image = "volume"
    /\ boot \in BootSectors
    /\ pc = "open"
    /\ Blank

Next ==
    \/ OpenBoot
    \/ LoadFat
    \/ NewReader
    \/ CollectChain
    \/ ReadPrimary
    \/ LoadStart
    \/ LoadStream
    \/ LoadName
    \/ LoadFinish
    \/ OpenPushItem
    \/ OpenFinish

Spec == Init /\ [][Next]_vars

\* Fat::get_cluster_chain on any FAT and any first index (fat.rs:55-60),
\* and the calls of ClusterChain::next on what it returns.
InitChain ==
    /\ image = "chain"
    /\ boot = BaseBoot
    /\ pc = "iterate"
    /\ \E count \in 2 .. MaxFatLen : fat \in Fats(count)
    /\ next \in FirstValues
    /\ ret = NoCall
    /\ yielded = <<>>
    /\ calls = 0
    /\ params = NoParams
    /\ chain = <<>>
    /\ offset = 0
    /\ entry_index = 0
    /\ entry = NoEntry
    /\ allocation_bitmaps = <<NoAllocation, NoAllocation>>
    /\ upcase_table = FALSE
    /\ volume_label = NoLabel
    /\ items = <<>>
    /\ stream = NoStream
    /\ names = <<>>
    /\ loaded = NoResult
    /\ file = NoFile
    /\ dir = <<>>
    /\ result = NoResult

Iterate ==
    /\ pc = "iterate"
    /\ ChainNext
    /\ UNCHANGED <<image, boot, pc, params, readerVars, entry, rootVars, loadVars, result>>

NextChain == Iterate

SpecChain == InitChain /\ [][NextChain]_vars

\* The caller goes on calling next().
LiveChain == SpecChain /\ WF_vars(Iterate)

\* The cluster chains of the directory streams handed to FileEntry::load.
LoadChains == {<<U32(2)>>, <<U32(3), U32(2)>>}

\* The primary entries handed to FileEntry::load: SecondaryCount and
\* FileAttributes.
LoadFiles == {Entry(133, c, FileWords(a)) : c \in {0, 1, 2, 3}, a \in {0, 16, 32}}

\* FileEntry::load on a primary entry just read from a directory stream.
InitLoad ==
    /\ image = "entryset"
    /\ boot = BaseBoot
    /\ pc = "load"
    /\ chain \in LoadChains
    /\ offset = 1
    /\ entry_index = 1
    /\ \E d \in LoadFiles : entry = [index |-> 0, cluster |-> chain[1], data |-> d]
    /\ dir = <<entry>>
    /\ params = NoParams
    /\ fat = <<>>
    /\ next = U32(0)
    /\ ret = NoCall
    /\ yielded = <<>>
    /\ calls = 0
    /\ allocation_bitmaps = <<NoAllocation, NoAllocation>>
    /\ upcase_table = FALSE
    /\ volume_label = NoLabel
    /\ items = <<>>
    /\ stream = NoStream
    /\ names = <<>>
    /\ loaded = NoResult
    /\ file = NoFile
    /\ result = NoResult

NextLoad ==
    \/ LoadStart
    \/ LoadStream
    \/ LoadName
    \/ LoadFinish

SpecLoad == InitLoad /\ [][NextLoad]_vars

(***************************************************************************)
(* Cluster chains.                                                         *)
(***************************************************************************)
\* The index names a cluster of the FAT: it is neither 0 nor 1 and it is
\* below the length of the FAT.
InRange(n) == ~Below(n, 2) /\ Below(n, Len(fat))

\* The index the iterator has reached ends the chain: it is below 2, at or
\* past the length of the FAT, or its entry is 0xFFFFFFF7.
Stopped(n) ==
    \/ Below(n, 2)
    \/ AtLeast(n, Len(fat))
    \/ fat[n[1] + 1] = BadCluster

\* C1: the iterator of get_cluster_chain never yields 0, 1 or an index at or
\* past the length of the FAT, and once the index it has reached is below 2,
\* at or past the length of the FAT, or linked to the bad-cluster mark, every
\* further call of next() returns None and yields nothing.
ChainStaysInRange ==
    /\ [](/\ ret.tag = "Some" => InRange(ret.v)
          /\ \A i \in 1 .. Len(yielded) : InRange(yielded[i]))
    /\ [][Stopped(next) => /\ ret'.tag = "None"
                            /\ yielded' = yielded
                            /\ Stopped(next')]_vars

\* A chain of two clusters has been yielded and has ended on a call that
\* returned None.
ChainOfTwoEnded ==
    /\ image = "chain"
    /\ Len(yielded) = 2
    /\ yielded[1] # yielded[2]
    /\ ret = None
    /\ Stopped(next)

\* C2: on every FAT and from every first index, repeated calls of next()
\* eventually return None.
ChainTerminates == <>(ret.tag = "None")

(***************************************************************************)
(* File entry sets.                                                        *)
(***************************************************************************)
\* ceil(n / 15).
Ceil15(n) == CHOOSE k \in 0 .. n : 15 * k >= n /\ (k = 0 \/ 15 * (k - 1) < n)

\* FileEntry::load has returned Ok.
LoadedOk == pc = "loaded" /\ loaded.kind = "Ok"

\* The entries FileEntry::load has read after the primary entry.
Secondaries == Tail(dir)

\* C3: whenever FileEntry::load returns Ok, the filename entries it has
\* consumed are SecondaryCount - 1 = ceil(NameLength / 15) entries, and the
\* name it returns, encoded as UTF-16, has NameLength code units.
NameLengthKept ==
    LoadedOk =>
        /\ Len(Secondaries) - 1 = SecondaryCount - 1
        /\ SecondaryCount - 1 = Ceil15(NameLengthOf(Secondaries[1].data))
        /\ Len(EncodeUtf16(file.name)) = NameLengthOf(Secondaries[1].data)

\* A name of sixteen code units in two filename entries, the first unit a
\* surrogate pair's, has been returned: fifteen characters.
NameOfTwoEntriesLoaded ==
    /\ image = "entryset"
    /\ LoadedOk
    /\ NameLengthOf(Secondaries[1].data) = 16
    /\ Len(Secondaries) = 3
    /\ Len(file.name) = 15

\* The FileAttributes of the primary entry have the directory bit 0x0010.
DirectoryBit == (dir[1].data.w[2] \div 16) % 2 = 1

\* ValidDataLength and DataLength of an entry agree with the attribute.
LengthsAgree(d) ==
    IF DirectoryBit THEN ValidDataLengthOf(d) = DataLengthOf(d)
    ELSE ~Greater(ValidDataLengthOf(d), DataLengthOf(d))

\* C4: the StreamEntry that StreamEntry::load returns has valid_data_length
\* = data_length under a directory file entry and valid_data_length <=
\* data_length otherwise, and a stream extension that violates this is
\* rejected with InvalidStreamExtension.
StreamLengthsChecked ==
    /\ stream # NoStream =>
          /\ stream.valid_data_length = ValidDataLengthOf(Secondaries[1].data)
          /\ stream.alloc.data_length = DataLengthOf(Secondaries[1].data)
          /\ LengthsAgree(Secondaries[1].data)
    /\ (/\ Len(Secondaries) >= 1
        /\ Secondaries[1].data.ty = 192
        /\ ~LengthsAgree(Secondaries[1].data)) =>
          /\ pc = "loaded"
          /\ loaded.kind = "Err"
          /\ loaded.err = "InvalidStreamExtension"
          /\ stream = NoStream

\* A stream extension under a directory whose ValidDataLength is below its
\* DataLength, and which is well-formed otherwise, has been rejected.
ShortDirectoryRejected ==
    /\ image = "entryset"
    /\ pc = "loaded"
    /\ DirectoryBit
    /\ Len(Secondaries) = 1
    /\ Secondaries[1].data.ty = 192
    /\ Secondaries[1].data.b1 = 1
    /\ NameLengthOf(Secondaries[1].data) = 1
    /\ FirstClusterOf(Secondaries[1].data) = U32(2)
    /\ Greater(DataLengthOf(Secondaries[1].data), ValidDataLengthOf(Secondaries[1].data))
    /\ loaded.err = "InvalidStreamExtension"

\* The entry is a critical secondary entry of type code 0 (a stream
\* extension, 0xC0) or 1 (a filename, 0xC1).
IsStreamExtension(d) == d.ty = 192
IsFileName(d) == d.ty = 193

\* The 32-byte entries the directory may hold at the k-th place after the
\* primary entry: the entry read there, or, where nothing has been read, any
\* entry if the stream reaches that far.
FollowingAt(k) ==
    IF k <= Len(Secondaries) THEN {Secondaries[k].data}
    ELSE IF k < Len(chain) * EntriesPerCluster THEN Alphabet(image)
    ELSE {}

\* FileEntry::load has failed with the error err.
LoadFailed(err) == pc = "loaded" /\ loaded.kind = "Err" /\ loaded.err = err

\* FileEntry::load has failed with the error err at the position of e.
LoadFailedAt(err, e) ==
    /\ LoadFailed(err)
    /\ loaded.has_pos
    /\ loaded.index = e.index
    /\ loaded.cluster = e.cluster

\* C5 as stated: FileEntry::load returns Ok only when the SecondaryCount
\* entries after the file entry are a stream extension and then filename
\* entries; when the first of them is anything else it fails with
\* NotStreamExtension, and when one of the next SecondaryCount - 1 is
\* anything else it fails with NotFileName.
SecondariesMatchAsStated ==
    pc = "loaded" =>
        /\ loaded.kind = "Ok" =>
              /\ Len(Secondaries) = SecondaryCount
              /\ IsStreamExtension(Secondaries[1].data)
              /\ \A k \in 2 .. SecondaryCount : IsFileName(Secondaries[k].data)
        /\ \A d \in FollowingAt(1) :
              (SecondaryCount >= 1 /\ ~IsStreamExtension(d)) => LoadFailed("NotStreamExtension")
        /\ \A k \in 2 .. SecondaryCount : \A d \in FollowingAt(k) :
              ((\A f \in FollowingAt(1) : IsStreamExtension(f)) /\ ~IsFileName(d))
                  => LoadFailed("NotFileName")

\* C5: FileEntry::load returns Ok only when the SecondaryCount entries after
\* the file entry are a stream extension and then filename entries.  With
\* SecondaryCount 0 or 1 it fails with NoStreamExtension or NoFileName and
\* reads nothing.  With SecondaryCount >= 2, when the first entry after the
\* file entry is not a stream extension it fails with NotStreamExtension at
\* that entry; when StreamEntry::load has accepted the stream extension and one
\* of the next SecondaryCount - 1 entries is not a filename entry, it fails
\* with NotFileName at the first such entry.
SecondariesMatch ==
    pc = "loaded" =>
        /\ loaded.kind = "Ok" =>
              /\ Len(Secondaries) = SecondaryCount
              /\ IsStreamExtension(Secondaries[1].data)
              /\ \A k \in 2 .. SecondaryCount : IsFileName(Secondaries[k].data)
        /\ SecondaryCount = 0 => LoadFailedAt("NoStreamExtension", dir[1]) /\ Secondaries = <<>>
        /\ SecondaryCount = 1 => LoadFailedAt("NoFileName", dir[1]) /\ Secondaries = <<>>
        /\ (/\ SecondaryCount >= 2
            /\ Len(Secondaries) >= 1
            /\ ~IsStreamExtension(Secondaries[1].data)) =>
              /\ LoadFailedAt("NotStreamExtension", Secondaries[1])
              /\ Len(Secondaries) = 1
        /\ \A k \in 2 .. Len(Secondaries) :
              (stream # NoStream /\ ~IsFileName(Secondaries[k].data)) =>
                  /\ LoadFailedAt("NotFileName", Secondaries[k])
                  /\ Len(Secondaries) = k

\* A file entry of SecondaryCount 3 whose stream extension and first filename
\* entry are followed by an entry of another type has failed with NotFileName.
SecondFileNameMissing ==
    /\ image = "entryset"
    /\ SecondaryCount = 3
    /\ Len(Secondaries) = 3
    /\ IsStreamExtension(Secondaries[1].data)
    /\ IsFileName(Secondaries[2].data)
    /\ Secondaries[3].data.ty = 0
    /\ LoadFailed("NotFileName")

(***************************************************************************)
(* The root directory.                                                     *)
(***************************************************************************)
\* Root::open has returned Ok.
Opened == pc = "done" /\ result.kind = "Ok"

\* Root::open has returned the error err.
OpenFailed(err) == pc = "done" /\ result.kind = "Err" /\ result.err = err

\* The BitmapFlags of the allocation bitmap entries (0x81) read, in on-disk
\* order.
BitmapFlagsRead == [k \in 1 .. Len(SelectSeq(dir, LAMBDA e : e.data.ty = 129)) |->
                       SelectSeq(dir, LAMBDA e : e.data.ty = 129)[k].data.b1]

\* C6: whenever Root::open returns Ok, the root directory held one allocation
\* bitmap entry if NumberOfFats is 1 and two if it is 2, and the k-th of them
\* (k = 0, 1) has BitmapFlags & 1 = k.
BitmapsMatchFats ==
    Opened =>
        /\ Len(BitmapFlagsRead) = boot.number_of_fats
        /\ \A k \in 1 .. Len(BitmapFlagsRead) : BitmapFlagsRead[k] % 2 = k - 1

\* The main boot sector is read and is an exFAT one.
BootDecoded == pc # "open" /\ boot.readable /\ boot.fs_name = "EXFAT   " /\ boot.zero

\* C7: whenever Root::open constructs Params, bytes_per_sector is 512, 1024,
\* 2048 or 4096 and sectors_per_cluster * bytes_per_sector <= 2^25; a
\* BytesPerSectorShift outside 9..=12 is rejected with
\* InvalidBytesPerSectorShift, and a SectorsPerClusterShift above
\* 25 - BytesPerSectorShift with InvalidSectorsPerClusterShift.
ShiftsChecked ==
    /\ params # NoParams =>
          /\ params.bytes_per_sector \in {512, 1024, 2048, 4096}
          /\ params.sectors_per_cluster * params.bytes_per_sector <= 33554432
    /\ (BootDecoded /\ boot.shifts[1] \notin 9 .. 12) =>
          OpenFailed("InvalidBytesPerSectorShift") /\ params = NoParams
    /\ (BootDecoded /\ boot.shifts[1] \in 9 .. 12 /\ boot.shifts[2] > 25 - boot.shifts[1]) =>
          OpenFailed("InvalidSectorsPerClusterShift") /\ params = NoParams

\* Params have been constructed from the largest cluster there is: sectors of
\* 4096 bytes, 8192 of them to the cluster.
LargestClusterDecoded ==
    /\ image = "volume"
    /\ boot.shifts = <<12, 13>>
    /\ params # NoParams
    /\ params.sectors_per_cluster * params.bytes_per_sector = 33554432

\* C8: Root::open, FileEntry::load and ClusterChain::next never panic: no
\* slice of an entry leaves its 32 bytes, no unsigned subtraction underflows
\* and no index into the FAT is at or past its length.
NoPanic ==
    /\ result.kind # "Panic"
    /\ loaded.kind # "Panic"
    /\ ret.tag # "Panic"

\* A label of the eleven code units a label may have has been decoded, and
\* after it a file of a name of two filename entries has been loaded.
FullLabelAndLongNameLoaded ==
    /\ image = "volume"
    /\ result.kind = "None"
    /\ \E e \in {dir[i] : i \in 1 .. Len(dir)} : e.data.ty = 131 /\ e.data.b1 = 11
    /\ volume_label.tag = "Some"
    /\ \E k \in 1 .. Len(items) : items[k].stream.name_length = 16

\* The errors Root::open returns because of a directory entry of the root.
EntryErrors ==
    {"NotPrimaryEntry", "UnknownEntry", "ReadClusterAllocationFailed",
     "InvalidVolumeLabel", "MultipleUpcaseTable", "MultipleVolumeLabel",
     "TooManyAllocationBitmap", "WrongAllocationBitmap", "LoadFileEntryFailed",
     "CreateFileObjectFailed"}

\* C9: every error Root::open returns because of a directory entry of the
\* root carries the index within its cluster and the cluster index of the
\* offending entry.
EntryErrorsCarryPosition ==
    (pc = "done" /\ result.kind = "Err" /\ result.err \in EntryErrors) =>
        /\ result.has_pos
        /\ \E i \in 1 .. Len(dir) :
              result.index = dir[i].index /\ result.cluster = dir[i].cluster

\* The walk over the entries read, from the i-th on, as the claim describes
\* it: an entry below 0x81 ends it, a file entry (0x85) takes its
\* SecondaryCount secondaries with it and gives one item, any other entry is
\* passed.  `stop` is the place of the entry that ends the walk, 0 if none
\* of the entries read does.
RECURSIVE Walk(_, _)
Walk(i, acc) ==
    IF i > Len(dir) THEN [stop |-> 0, items |-> acc]
    ELSE IF dir[i].data.ty < 129 THEN [stop |-> i, items |-> acc]
    ELSE IF dir[i].data.ty = 133 /\ i < Len(dir)
    THEN Walk(i + dir[i].data.b1 + 1,
              Append(acc, [kind |-> IF (dir[i].data.w[2] \div 16) % 2 = 1
                                    THEN "Directory" ELSE "File",
                           at |-> dir[i + 1].data]))
    ELSE Walk(i + 1, acc)

\* The loop over the primary entries has ended by its break.
Enumerated ==
    \/ pc = "check"
    \/ Opened
    \/ OpenFailed("NoAllocationBitmap")
    \/ OpenFailed("NoUpcaseTable")

\* C10: Root::open stops at the first primary-level entry whose EntryType is
\* below 0x81: it reads no entry after it, and on success the items are the
\* file entry sets before that entry, one item a set, in on-disk order, a
\* Directory when the attribute bit 0x0010 is set and a File otherwise.  The
\* items are those of the sets read so far all through the loop.
StopsAtFirstNonRegular ==
    /\ [](/\ Walk(1, <<>>).stop # 0 => Enumerated /\ Walk(1, <<>>).stop = Len(dir)
          /\ Enumerated => Walk(1, <<>>).stop = Len(dir)
          /\ (pc \in {"loop", "check"} \/ Opened) =>
                /\ Len(items) = Len(Walk(1, <<>>).items)
                /\ \A k \in 1 .. Len(items) :
                      /\ items[k].kind = Walk(1, <<>>).items[k].kind
                      /\ items[k].stream = StreamOf(Walk(1, <<>>).items[k].at)
                      /\ Len(EncodeUtf16(items[k].name))
                            = NameLengthOf(Walk(1, <<>>).items[k].at))
    /\ [][Enumerated => dir' = dir /\ offset' = offset /\ items' = items]_vars

\* A root of one directory, ended by an entry 0x80, has been opened.
DirectoryOpened ==
    /\ Opened
    /\ Len(items) = 1
    /\ items[1].kind = "Directory"
    /\ dir[Len(dir)].data.ty = 128

(***************************************************************************)
(* The name of a file entry set.                                           *)
(***************************************************************************)
\* The code units of the filename entries read, one entry after the other.
RECURSIVE UnitsOf(_)
UnitsOf(es) == IF es = <<>> THEN <<>> ELSE es[1].data.w \o UnitsOf(Tail(es))

\* The first NameLength code units across the filename entries, in order.
NameUnits ==
    SubSeq(UnitsOf(Tail(Secondaries)), 1, NameLengthOf(Secondaries[1].data))

\* FileEntry::load has returned on an entry set with a valid stream
\* extension, the right number of filename entries and allocation-possible
\* clear in each of them.
NameDecoded ==
    /\ pc = "loaded"
    /\ stream # NoStream
    /\ Len(Secondaries) = SecondaryCount
    /\ \A k \in 2 .. SecondaryCount :
          IsFileName(Secondaries[k].data) /\ Secondaries[k].data.b1 % 2 = 0
    /\ SecondaryCount - 1 = Ceil15(NameLengthOf(Secondaries[1].data))

\* C11: on an entry set with a valid stream extension, the right number of
\* filename entries and allocation-possible clear in each, FileEntry::load
\* returns the UTF-16 decoding of the first NameLength code units taken
\* across the filename entries in order, and it returns InvalidFileName
\* exactly when those code units are not well-formed UTF-16.
NameIsDecodedConcatenation ==
    NameDecoded =>
        /\ LoadFailed("InvalidFileName") <=> ~WellFormed(NameUnits)
        /\ WellFormed(NameUnits) =>
              loaded.kind = "Ok" /\ file.name = DecodeLossy(NameUnits)

(***************************************************************************)
(* The cluster chain against its reference.                                *)
(***************************************************************************)
\* The reference sequence from the index c: c, FAT[c], FAT[FAT[c]], ..., cut
\* before the first index that is below 2, at or past the length of the FAT,
\* or 0xFFFFFFF7; at most `most` indices of it.
RECURSIVE RefChain(_, _)
RefChain(c, most) ==
    IF most = 0 \/ Below(c, 2) \/ AtLeast(c, Len(fat)) \/ c = BadCluster THEN <<>>
    ELSE <<c>> \o RefChain(fat[c[1] + 1], most - 1)

\* The index get_cluster_chain was called with: the iterator's, until it has
\* yielded one.
First == IF yielded = <<>> THEN next ELSE yielded[1]

\* C12: the sequence get_cluster_chain(first) yields is the reference
\* sequence c0 = first, c(i+1) = FAT[c(i)], cut before the first c(i) that is
\* below 2, at or past the length of the FAT, or 0xFFFFFFF7: what has been
\* yielded is the start of it, and all of it once next() has returned None.
ChainIsReference ==
    /\ Len(yielded) <= Len(RefChain(First, Len(fat)))
    /\ yielded = SubSeq(RefChain(First, Len(fat)), 1, Len(yielded))
    /\ ret.tag = "None" => yielded = RefChain(First, Len(fat))
    /\ (ret.tag = "Some" /\ Len(yielded) < Len(fat)) => ret.v = yielded[Len(yielded)]

(***************************************************************************)
(* The positions of the entries read.                                      *)
(***************************************************************************)
\* The cluster of the stream that holds its i-th entry (from 1).
ClusterHolding(i) == chain[((i - 1) \div EntriesPerCluster) + 1]

\* The number of entries returned before the i-th from the cluster of the
\* i-th.
ReturnedBefore(i) == Cardinality({j \in 1 .. i - 1 : dir[j].cluster = dir[i].cluster})

\* C13: every RawEntry that EntriesReader::read returns carries the cluster
\* its 32 bytes were read from, and as index the number of entries returned
\* before it from that cluster: the first entry of every cluster has index 0
\* and the last entry of a cluster of N entries has index N - 1.
EntriesCarryPosition ==
    \A i \in 1 .. Len(dir) :
        /\ dir[i].cluster = ClusterHolding(i)
        /\ dir[i].index = ReturnedBefore(i)
        /\ (i - 1) % EntriesPerCluster = 0 => dir[i].index = 0
        /\ i % EntriesPerCluster = 0 => dir[i].index = EntriesPerCluster - 1

\* The entries of two clusters and the first entry of a third have been
\* read.
ThirdClusterEntered ==
    /\ image = "volume"
    /\ Len(chain) >= 3
    /\ Len(dir) = 2 * EntriesPerCluster + 1
    /\ dir[Len(dir)].cluster = chain[3]
    /\ dir[Len(dir)].index = 0

(***************************************************************************)
(* The offset of the FAT.                                                  *)
(***************************************************************************)
\* Root::open is at its call of Fat::load, or has just returned from it.
FatReached ==
    /\ pc \in {"fat", "reader"}
    /\ ActiveFat = 0 \/ params.number_of_fats = 2

\* C14: when Fat::load is reached from Root::open, none of fat_length *
\* index, fat_offset + that product and sector * bytes_per_sector overflows
\* 64 bits: InvalidFatLength is never returned, and InvalidFatOffset is
\* returned only when the offset has been computed, by the seek.
FatOffsetFits ==
    /\ \A k \in 1 .. Len(result.cause) : result.cause[k] # "InvalidFatLength"
    /\ FatReached =>
          /\ CheckedMul(params.fat_length, ActiveFat).tag = "Some"
          /\ CheckedAdd(params.fat_offset,
                        CheckedMul(params.fat_length, ActiveFat).v).tag = "Some"
          /\ CheckedMul(CheckedAdd(params.fat_offset,
                                   CheckedMul(params.fat_length, ActiveFat).v).v,
                        params.bytes_per_sector).tag = "Some"

\* The second FAT of a volume whose FatOffset and FatLength are both
\* 0xFFFFFFFF, in sectors of 4096 bytes, has been loaded.
FarthestFatLoaded ==
    /\ image = "volume"
    /\ boot.fat_offset = <<65535, 65535>>
    /\ boot.fat_length = <<65535, 65535>>
    /\ boot.volume_flags = 1
    /\ boot.shifts[1] = 12
    /\ pc = "reader"
    /\ Len(fat) = 2

====
